---------------------------- MODULE Spec2Model ----------------------------
(***************************************************************************)
(* Merkle-tree membership and nullifier core of the airdrop claim prover.   *)
(*                                                                         *)
(*   core/src/lib.rs            compute_leaf, hash_pair,                    *)
(*                              verify_merkle_proof, compute_nullifier      *)
(*   host/src/merkle.rs         MerkleTree::new / compute_root / get_proof  *)
(*   methods/guest/src/main.rs  the guest program (verify_claim)            *)
(*                                                                         *)
(* SHA-256 is modelled as a collision-free digest: the digest of a message  *)
(* is the message itself in a wrapper, so two digests are equal exactly     *)
(* when the hashed messages are equal.  A message is the sequence of what   *)
(* was fed to the hasher: the 20 bytes of an address, the 20 + 8 bytes of   *)
(* the nullifier preimage, or the two 32-byte digests of a pair.            *)
(***************************************************************************)
EXTENDS Integers, Sequences, FiniteSets, TLC

(***************************************************************************)
(* Bounds of the model.                                                     *)
(***************************************************************************)
\* longest allowlist handed to MerkleTree::new
MaxLeaves == 5
\* indices 0..MaxIndex are tried as leaf_index / index arguments
MaxIndex == 9
\* forged proofs are tried against trees of at most this many leaves ...
MaxForgeLeaves == 3
\* ... and are at most this long
MaxForgeLen == 2

(***************************************************************************)
(* Program constants.                                                       *)
(***************************************************************************)
\* user_address: [u8; 20]
AddressLen == 20
\* u64::to_le_bytes yields 8 bytes
EpochBytes == 8

(***************************************************************************)
(* Input domains.                                                           *)
(***************************************************************************)
Max(S) == CHOOSE m \in S : \A y \in S : y <= m

\* The address [k; 20], as the fixtures [1u8; 20], [2u8; 20], ... of the tests.
Addr(k) == [b \in 1..AddressLen |-> k]

\* Addr(k) with its last byte replaced: an address one byte away from Addr(k).
AddrLast(k, last) == [b \in 1..AddressLen |-> IF b = AddressLen THEN last ELSE k]

RECURSIVE IdLists(_)
\* Allowlists of n addresses, duplicates included, up to renaming of the
\* addresses: the first address is 1 and each next one is an address already
\* used or the next unused one.  The digests are collision-free and carry no
\* other structure, so renaming addresses changes no comparison.
IdLists(n) ==
    IF n = 0 THEN {<< >>}
    ELSE UNION {{Append(s, k) : k \in 1..(Max({0} \cup {s[q] : q \in DOMAIN s}) + 1)}
                  : s \in IdLists(n - 1)}

AddressLists == UNION {{[q \in DOMAIN s |-> Addr(s[q])] : s \in IdLists(n)} : n \in 0..MaxLeaves}

\* Claimants: every address an allowlist can hold and one that none holds.
Claimants == {Addr(k) : k \in 1..(MaxLeaves + 1)}

\* leaf_index: u32 values tried (small ones, and large ones far out of range)
Indices == (0..MaxIndex) \cup {65538, 2147483647}

\* epoch_id: u64 values tried by the guest
GuestEpochs == {7, 8, 263}

\* epoch_id: u64 values tried for the nullifier
Epochs == {0, 1, 7, 255, 256, 257, 65536, 16777217}

\* addresses tried for the nullifier
NullifierAddresses == {Addr(1), Addr(2), AddrLast(1, 2), AddrLast(0, 1)}

Distinct(s) == \A p, q \in DOMAIN s : p # q => s[p] # s[q]

(***************************************************************************)
(* core/src/lib.rs                                                          *)
(***************************************************************************)
\* Sha256::new() ... update(..) ... finalize(): collision-free digest of msg
Sha256(msg) == [sha256 |-> msg]

\* a 32-byte value that is the digest of no address, pair or nullifier preimage
Junk == Sha256(<<0>>)

compute_leaf(address) == Sha256(address)

\* hash_pair that feeds left to the hasher twice and never right
hash_pair_left_twice(left, right) == Sha256(<<left, left>>)

hash_pair(left, right) == Sha256(<<left, right>>)

RECURSIVE LEBytes(_, _)
LEBytes(x, n) == IF n = 0 THEN << >> ELSE <<x % 256>> \o LEBytes(x \div 256, n - 1)

\* to_le_bytes with the epoch narrowed to one byte first (epoch_id as u8)
to_le_bytes_narrowed(x) == LEBytes(x % 256, EpochBytes)

\* u64::to_le_bytes
to_le_bytes(x) == LEBytes(x, EpochBytes)

\* the bytes fed to the hasher by compute_nullifier
nullifier_preimage(address, epoch_id) == address \o to_le_bytes(epoch_id)

compute_nullifier(address, epoch_id) == Sha256(nullifier_preimage(address, epoch_id))

\* verify_step with the left/right convention the other way round
verify_step_swapped(computed_hash, proof_element, current_index) ==
    IF current_index % 2 = 0
    THEN hash_pair(proof_element, computed_hash)
    ELSE hash_pair(computed_hash, proof_element)

\* verify_step that never looks at the index
verify_step_always_left(computed_hash, proof_element, current_index) ==
    hash_pair(computed_hash, proof_element)

\* verify_step whose right-child branch hashes the proof element with itself
verify_step_drops_hash(computed_hash, proof_element, current_index) ==
    IF current_index % 2 = 0
    THEN hash_pair(computed_hash, proof_element)
    ELSE hash_pair(proof_element, proof_element)

\* one turn of the loop of verify_merkle_proof: the new computed_hash
verify_step(computed_hash, proof_element, current_index) ==
    IF current_index % 2 = 0
    THEN hash_pair(computed_hash, proof_element)
    ELSE hash_pair(proof_element, computed_hash)

RECURSIVE verify_fold(_, _, _)
\* computed_hash after the loop has consumed proof
verify_fold(computed_hash, proof, current_index) ==
    IF proof = << >> THEN computed_hash
    ELSE verify_fold(verify_step(computed_hash, Head(proof), current_index),
                     Tail(proof), current_index \div 2)

verify_merkle_proof(leaf, proof, index, root) ==
    verify_fold(leaf, proof, index) = root

(***************************************************************************)
(* host/src/merkle.rs                                                       *)
(* Rust indexes from 0, TLA+ sequences from 1: current_level[i] of the code *)
(* is level[i + 1] here.                                                    *)
(***************************************************************************)
\* parent_node that carries an unpaired last node up unchanged
parent_node_promotes(level, i) ==
    IF i + 1 < Len(level)
    THEN hash_pair(level[i + 1], level[i + 2])
    ELSE level[i + 1]

\* the node pushed to next_level at step i of the inner loop (i = 0, 2, ...)
parent_node(level, i) ==
    IF i + 1 < Len(level)
    THEN hash_pair(level[i + 1], level[i + 2])
    ELSE hash_pair(level[i + 1], level[i + 1])

\* next_level after the inner loop
next_level(level) ==
    [k \in 1..((Len(level) + 1) \div 2) |-> parent_node(level, 2 * (k - 1))]

RECURSIVE compute_root(_)
compute_root(leaves) ==
    IF Len(leaves) > 1 THEN compute_root(next_level(leaves)) ELSE leaves[1]

\* proof_push that records nothing for an unpaired last node
proof_push_skips_unpaired(level, current_index, i) ==
    IF i + 1 < Len(level)
    THEN IF i = current_index THEN <<level[i + 2]>>
         ELSE IF i + 1 = current_index THEN <<level[i + 1]>>
         ELSE << >>
    ELSE << >>

\* what step i of the inner loop of get_proof pushes to proof
proof_push(level, current_index, i) ==
    IF i + 1 < Len(level)
    THEN IF i = current_index THEN <<level[i + 2]>>
         ELSE IF i + 1 = current_index THEN <<level[i + 1]>>
         ELSE << >>
    ELSE IF i = current_index THEN <<level[i + 1]>> ELSE << >>

RECURSIVE level_pushes(_, _, _)
\* what the inner loop of get_proof pushes to proof from step i on
level_pushes(level, current_index, i) ==
    IF i >= Len(level) THEN << >>
    ELSE proof_push(level, current_index, i) \o level_pushes(level, current_index, i + 2)

RECURSIVE proof_from(_, _)
\* the outer loop of get_proof
proof_from(level, current_index) ==
    IF Len(level) > 1
    THEN level_pushes(level, current_index, 0)
           \o proof_from(next_level(level), current_index \div 2)
    ELSE << >>

NoTree == [leaves |-> << >>, root |-> Junk, built |-> FALSE]

\* MerkleTree::new: the tree, or the panic of its assert!
MerkleTree_new(addrs) ==
    IF addrs = << >>
    THEN [tree |-> NoTree, panic |-> "Cannot build tree from empty list"]
    ELSE LET leaves == [q \in DOMAIN addrs |-> compute_leaf(addrs[q])]
         IN  [tree |-> [leaves |-> leaves, root |-> compute_root(leaves), built |-> TRUE],
              panic |-> ""]

\* get_proof whose assert accepts index = leaves.len()
get_proof_off_by_one(t, index) ==
    IF ~(index <= Len(t.leaves))
    THEN [proof |-> << >>, panic |-> "Index out of bounds"]
    ELSE [proof |-> proof_from(t.leaves, index), panic |-> ""]

\* MerkleTree::get_proof: the proof, or the panic of its assert!
get_proof(t, index) ==
    IF ~(index < Len(t.leaves))
    THEN [proof |-> << >>, panic |-> "Index out of bounds"]
    ELSE [proof |-> proof_from(t.leaves, index), panic |-> ""]

(***************************************************************************)
(* methods/guest/src/main.rs                                                *)
(***************************************************************************)
\* main, steps 5 and 6, with the nullifier taken over the leaf index
main_output_index_nullifier(claim_input, public_inputs) ==
    [merkle_root |-> public_inputs.merkle_root,
     nullifier |-> compute_nullifier(claim_input.user_address, claim_input.leaf_index),
     epoch_id |-> claim_input.epoch_id]

\* main, steps 5 and 6: the ClaimOutput
main_output(claim_input, public_inputs) ==
    [merkle_root |-> public_inputs.merkle_root,
     nullifier |-> compute_nullifier(claim_input.user_address, claim_input.epoch_id),
     epoch_id |-> claim_input.epoch_id]

\* main with the epoch assert before the proof assert
main_epoch_first(claim_input, public_inputs) ==
    LET leaf == compute_leaf(claim_input.user_address)
        valid == verify_merkle_proof(leaf, claim_input.merkle_proof,
                                     claim_input.leaf_index, public_inputs.merkle_root)
    IN  IF claim_input.epoch_id # public_inputs.epoch_id
        THEN [is_valid |-> valid, panic |-> "Epoch ID mismatch", journal |-> << >>]
        ELSE IF ~valid
        THEN [is_valid |-> valid, panic |-> "Invalid Merkle proof", journal |-> << >>]
        ELSE [is_valid |-> valid, panic |-> "",
              journal |-> <<main_output(claim_input, public_inputs)>>]

\* main: is_valid, the message of the assert that failed ("" if none), and
\* the journal after the run (env::commit appends the output to it)
main(claim_input, public_inputs) ==
    LET leaf == compute_leaf(claim_input.user_address)
        valid == verify_merkle_proof(leaf, claim_input.merkle_proof,
                                     claim_input.leaf_index, public_inputs.merkle_root)
    IN  IF ~valid
        THEN [is_valid |-> valid, panic |-> "Invalid Merkle proof", journal |-> << >>]
        ELSE IF claim_input.epoch_id # public_inputs.epoch_id
        THEN [is_valid |-> valid, panic |-> "Epoch ID mismatch", journal |-> << >>]
        ELSE [is_valid |-> valid, panic |-> "",
              journal |-> <<main_output(claim_input, public_inputs)>>]

(***************************************************************************)
(* State.                                                                   *)
(***************************************************************************)
VARIABLES
    pc,            \* what has run last: "start", "built", "proved", "host_panic",
                   \* "verified", "guest", "nullifier"
    addresses,     \* the allowlist handed to MerkleTree::new
    tree,          \* the MerkleTree it returned (NoTree: none)
    host_panic,    \* the message of the host's failed assert!, "" if none
    proof_index,   \* the index handed to get_proof
    proof,         \* the proof it returned
    call,          \* the direct call of verify_merkle_proof and its result
    claim_input,   \* the guest's private input (env::read)
    public_inputs, \* the guest's public input (env::read)
    is_valid,      \* the guest's local is_valid
    guest_panic,   \* the message of the guest's failed assert, "" if none
    journal,       \* what the guest committed
    nul_prev,      \* the call of compute_nullifier before the last
    nul_last       \* the last call of compute_nullifier

host_vars == <<addresses, tree, host_panic, proof_index, proof>>
guest_vars == <<claim_input, public_inputs, is_valid, guest_panic, journal>>
nul_vars == <<nul_prev, nul_last>>
vars == <<pc, host_vars, call, guest_vars, nul_vars>>

(***************************************************************************)
(* Inputs tried.                                                            *)
(***************************************************************************)
RECURSIVE tree_levels(_)
\* the levels the reduction goes through, leaves first, the root's level last
tree_levels(level) ==
    <<level>> \o (IF Len(level) > 1 THEN tree_levels(next_level(level)) ELSE << >>)

\* every node of the tree of these leaves, and a value that is none of them
NodeValues(leaves) ==
    LET ls == tree_levels(leaves)
    IN  UNION {{ls[k][q] : q \in DOMAIN ls[k]} : k \in DOMAIN ls} \cup {Junk}

RECURSIVE SeqsUpTo(_, _)
SeqsUpTo(S, n) ==
    IF n = 0 THEN {<< >>}
    ELSE LET shorter == SeqsUpTo(S, n - 1)
         IN  shorter \cup {Append(s, v) : s \in {x \in shorter : Len(x) = n - 1}, v \in S}

RECURSIVE Pow2(_)
Pow2(n) == IF n = 0 THEN 1 ELSE 2 * Pow2(n - 1)

\* proof with its k-th element replaced by v
Replaced(p, k, v) == [p EXCEPT ![k] = v]

\* Arguments of a direct call of verify_merkle_proof once get_proof has
\* returned: the leaf, the proof and the root of the tree with any index; the
\* proof with one element replaced or with its end cut off; any other leaf.
VerifyArgs ==
    LET leaf == tree.leaves[proof_index + 1]
        honest == [leaf |-> leaf, proof |-> proof, index |-> proof_index, root |-> tree.root]
    IN  {[honest EXCEPT !.index = j] : j \in Indices}
        \cup {[honest EXCEPT !.proof = Replaced(proof, k, v)] :
                 k \in DOMAIN proof, v \in NodeValues(tree.leaves)}
        \cup {[honest EXCEPT !.proof = SubSeq(proof, 1, n)] : n \in 0..Len(proof)}
        \cup {[honest EXCEPT !.leaf = v] : v \in NodeValues(tree.leaves)}
        \cup {[honest EXCEPT !.leaf = v, !.proof = << >>] : v \in NodeValues(tree.leaves)}

\* Public inputs tried by the guest: the tree's root with every epoch, and a
\* root that is not the tree's.
PublicInputs ==
    {[merkle_root |-> tree.root, epoch_id |-> e] : e \in GuestEpochs}
    \cup {[merkle_root |-> Junk, epoch_id |-> 7]}

\* Private inputs once get_proof has returned: the claim of the member at
\* proof_index, with any epoch; the same with another claimant, with the next
\* index, or with one proof element replaced.
HostClaims ==
    LET honest == [user_address |-> addresses[proof_index + 1], merkle_proof |-> proof,
                   leaf_index |-> proof_index, epoch_id |-> 7]
        claims == {honest, [honest EXCEPT !.leaf_index = proof_index + 1]}
                  \cup {[honest EXCEPT !.user_address = a] : a \in Claimants}
                  \cup {[honest EXCEPT !.merkle_proof = Replaced(proof, k, v)] :
                           k \in DOMAIN proof, v \in {Junk, tree.leaves[1]}}
    IN  {[c EXCEPT !.epoch_id = e] : c \in claims, e \in GuestEpochs}

\* Private inputs of a claimant who holds the tree but no proof from the
\* host: any proof made of the tree's nodes, any index that the proof's
\* length can tell apart.  Tried against the small trees only.
ForgedClaims ==
    IF Len(tree.leaves) > MaxForgeLeaves THEN {}
    ELSE {[user_address |-> a, merkle_proof |-> p, leaf_index |-> j, epoch_id |-> 7] :
             a \in {Addr(1), Addr(2), Addr(MaxLeaves + 1)},
             p \in SeqsUpTo(NodeValues(tree.leaves), MaxForgeLen),
             j \in 0..(Pow2(MaxForgeLen) - 1)}

NoCall == [leaf |-> Junk, proof |-> << >>, index |-> 0, root |-> Junk,
           result |-> FALSE, returned |-> FALSE]

NoClaim == [user_address |-> << >>, merkle_proof |-> << >>, leaf_index |-> 0, epoch_id |-> 0]

NoPublic == [merkle_root |-> Junk, epoch_id |-> 0]

NoNullifier == [address |-> << >>, epoch_id |-> 0, nullifier |-> Junk, returned |-> FALSE]

(***************************************************************************)
(* Initial state and operations.                                            *)
(***************************************************************************)
Init ==
    /\ pc = "start"
    /\ addresses = << >>
    /\ tree = NoTree
    /\ host_panic = ""
    /\ proof_index = 0
    /\ proof = << >>
    /\ call = NoCall
    /\ claim_input = NoClaim
    /\ public_inputs = NoPublic
    /\ is_valid = FALSE
    /\ guest_panic = ""
    /\ journal = << >>
    /\ nul_prev = NoNullifier
    /\ nul_last = NoNullifier

\* MerkleTree::new(&addresses)
New ==
    /\ pc = "start"
    /\ \E addrs \in AddressLists :
         LET r == MerkleTree_new(addrs)
         IN  /\ addresses' = addrs
             /\ tree' = r.tree
             /\ host_panic' = r.panic
             /\ pc' = IF r.panic = "" THEN "built" ELSE "host_panic"
    /\ UNCHANGED <<proof_index, proof, call, guest_vars, nul_vars>>

\* tree.get_proof(index)
GetProof ==
    /\ pc = "built"
    /\ \E index \in 0..MaxLeaves :
         LET r == get_proof(tree, index)
         IN  /\ proof_index' = index
             /\ proof' = r.proof
             /\ host_panic' = r.panic
             /\ pc' = IF r.panic = "" THEN "proved" ELSE "host_panic"
    /\ UNCHANGED <<addresses, tree, call, guest_vars, nul_vars>>

\* core::verify_merkle_proof(&leaf, &proof, index, &root), called directly
VerifyCall ==
    /\ pc = "proved"
    /\ \E a \in VerifyArgs :
         call' = [leaf |-> a.leaf, proof |-> a.proof, index |-> a.index, root |-> a.root,
                  result |-> verify_merkle_proof(a.leaf, a.proof, a.index, a.root),
                  returned |-> TRUE]
    /\ pc' = "verified"
    /\ UNCHANGED <<host_vars, guest_vars, nul_vars>>

\* the guest program, on the inputs the host wrote for it
GuestMain ==
    /\ pc \in {"built", "proved"}
    /\ \E ci \in (IF pc = "built" THEN ForgedClaims ELSE HostClaims), pi \in PublicInputs :
         LET r == main(ci, pi)
         IN  /\ claim_input' = ci
             /\ public_inputs' = pi
             /\ is_valid' = r.is_valid
             /\ guest_panic' = r.panic
             /\ journal' = r.journal
    /\ pc' = "guest"
    /\ UNCHANGED <<host_vars, call, nul_vars>>

\* core::compute_nullifier(&address, epoch_id)
ComputeNullifier ==
    /\ pc \in {"start", "nullifier"}
    /\ \E a \in NullifierAddresses, e \in Epochs :
         nul_last' = [address |-> a, epoch_id |-> e,
                      nullifier |-> compute_nullifier(a, e), returned |-> TRUE]
    /\ nul_prev' = nul_last
    /\ pc' = "nullifier"
    /\ UNCHANGED <<host_vars, call, guest_vars>>

Next == New \/ GetProof \/ VerifyCall \/ GuestMain \/ ComputeNullifier

Spec == Init /\ [][Next]_vars

(***************************************************************************)
(* Properties.                                                              *)
(***************************************************************************)
\* the direct call was made with the leaf at proof_index and the tree's root
CallOfMember ==
    /\ pc = "verified"
    /\ call.leaf = compute_leaf(addresses[proof_index + 1])
    /\ call.root = tree.root

\* p is q with exactly one element replaced by a different value
OneReplaced(p, q) ==
    /\ Len(p) = Len(q)
    /\ Cardinality({k \in DOMAIN q : p[k] # q[k]}) = 1

\* p is q with one or more elements dropped from its end
CutShort(p, q) == Len(p) < Len(q) /\ p = SubSeq(q, 1, Len(p))

\* least d with 2^d >= n
CeilLog2(n) == CHOOSE d \in 0..n : Pow2(d) >= n /\ \A c \in 0..(d - 1) : Pow2(c) < n

\* position (from 0) at level k (from 1) of the node on the path of leaf index
PathIndex(index, k) == index \div Pow2(k - 1)

\* the value a little-endian byte string stands for
RECURSIVE LEValue(_)
LEValue(bytes) == IF bytes = << >> THEN 0 ELSE Head(bytes) + 256 * LEValue(Tail(bytes))

\* the guest's proof check, evaluated on the inputs it was given
ClaimVerifies ==
    verify_merkle_proof(compute_leaf(claim_input.user_address), claim_input.merkle_proof,
                        claim_input.leaf_index, public_inputs.merkle_root)

\* C1: round-trip membership.  For every allowlist (every length, odd and
\* even, length 1 included) and every index below the number of leaves,
\* verify on the leaf at that index, the proof get_proof returned for it, the
\* index and the tree's root returns true.
C1_RoundTrip ==
    (CallOfMember /\ call.proof = proof /\ call.index = proof_index)
        => call.result = TRUE

\* C1 witness: the last leaf of a five-leaf tree (unpaired at two levels)
\* verified with its own proof and index.
C1_Witness ==
    /\ CallOfMember /\ call.proof = proof /\ call.index = proof_index
    /\ Len(addresses) = 5 /\ proof_index = 4 /\ Len(proof) = 3
    /\ call.result = TRUE

\* C2 as claimed: for a tree of distinct identities, the leaf at i and its
\* proof verified against the root with ANY index j # i, in or out of the
\* leaf range, returns false.
C2_WrongIndexAnywhere ==
    (CallOfMember /\ Distinct(addresses) /\ call.proof = proof /\ call.index # proof_index)
        => call.result = FALSE

\* C2 as amended: for a tree of distinct identities, the leaf at i and its
\* proof verified against the root with any index j # i below the number of
\* leaves returns false.
C2_WrongIndexInRange ==
    (/\ CallOfMember /\ Distinct(addresses) /\ call.proof = proof
     /\ call.index # proof_index /\ call.index < Len(tree.leaves))
        => call.result = FALSE

\* C2 witness: leaf 4 of five distinct identities, verified with index 2.
C2_Witness ==
    /\ CallOfMember /\ Distinct(addresses) /\ call.proof = proof
    /\ Len(addresses) = 5 /\ proof_index = 4 /\ call.index = 2
    /\ call.result = FALSE

\* C3: a corrupted proof is rejected by a false result, never by an error.
\* For a tree of distinct identities, the leaf at i, index i and the root,
\* the proof of i with one element replaced by a different value, or with one
\* or more elements dropped from its end, makes verify return false; and every
\* call of verify, whatever its leaf, proof and index, returns a boolean.
C3_CorruptedProofRejected ==
    /\ (/\ CallOfMember /\ Distinct(addresses) /\ call.index = proof_index
        /\ (OneReplaced(call.proof, proof) \/ CutShort(call.proof, proof)))
          => call.result = FALSE
    /\ pc = "verified" => (call.returned /\ call.result \in BOOLEAN)

\* C3 witness: the proof of a leaf of a four-leaf tree with its second
\* element replaced by a leaf of the tree, rejected.
C3_Witness ==
    /\ CallOfMember /\ Distinct(addresses) /\ call.index = proof_index
    /\ Len(addresses) = 4 /\ OneReplaced(call.proof, proof)
    /\ call.proof[2] = tree.leaves[1]
    /\ call.result = FALSE

\* C4: rejection and check order of the guest.  An output is committed only
\* if the proof verifies against the public root and the private epoch equals
\* the public one.  If the proof does not verify the guest fails with
\* "Invalid Merkle proof" (InvalidProofError) whatever the epochs are; if it
\* verifies and the epochs differ it fails with "Epoch ID mismatch"
\* (EpochMismatchError); a failed run commits nothing.
C4_RejectionOrder ==
    pc = "guest" =>
        /\ journal # << >> => (ClaimVerifies /\ claim_input.epoch_id = public_inputs.epoch_id)
        /\ ~ClaimVerifies => (guest_panic = "Invalid Merkle proof" /\ journal = << >>)
        /\ (ClaimVerifies /\ claim_input.epoch_id # public_inputs.epoch_id)
             => (guest_panic = "Epoch ID mismatch" /\ journal = << >>)
        /\ guest_panic # "" => journal = << >>

\* C4 witness: a run whose proof does not verify and whose epochs differ,
\* failed with the proof's message.
C4_Witness ==
    /\ pc = "guest" /\ ~ClaimVerifies
    /\ claim_input.epoch_id = 7 /\ public_inputs.epoch_id = 8
    /\ public_inputs.merkle_root = tree.root
    /\ guest_panic = "Invalid Merkle proof" /\ journal = << >>

\* C5: success output of the guest.  Whenever the proof verifies against the
\* public root and the epochs are equal, the run succeeds and commits exactly
\* one record: the public root, the public epoch, and
\* compute_nullifier(private identity, private epoch).
C5_SuccessOutput ==
    (pc = "guest" /\ ClaimVerifies /\ claim_input.epoch_id = public_inputs.epoch_id)
        => /\ guest_panic = ""
           /\ journal = <<[merkle_root |-> public_inputs.merkle_root,
                           nullifier |-> compute_nullifier(claim_input.user_address,
                                                           claim_input.epoch_id),
                           epoch_id |-> public_inputs.epoch_id]>>

\* C5 witness: the third of four members claims in epoch 7 with a proof of
\* two siblings and the record is committed.
C5_Witness ==
    /\ pc = "guest" /\ Len(addresses) = 4 /\ Distinct(addresses)
    /\ claim_input.user_address = addresses[3] /\ claim_input.leaf_index = 2
    /\ Len(claim_input.merkle_proof) = 2
    /\ claim_input.epoch_id = 7 /\ public_inputs.epoch_id = 7
    /\ Len(journal) = 1 /\ journal[1].epoch_id = 7

\* C6: nullifier binding.  compute_nullifier(id, e) is the digest of 28
\* bytes: the 20 bytes of id, then 8 bytes that read as a little-endian number
\* give e.  Two calls return the same nullifier exactly when they were given
\* the same identity and the same epoch.
C6_NullifierBinding ==
    /\ nul_last.returned =>
         LET msg == nul_last.nullifier.sha256
             bytes == SubSeq(msg, AddressLen + 1, Len(msg))
         IN  /\ Len(msg) = AddressLen + EpochBytes
             /\ SubSeq(msg, 1, AddressLen) = nul_last.address
             /\ \A q \in DOMAIN bytes : bytes[q] \in 0..255
             /\ LEValue(bytes) = nul_last.epoch_id
    /\ (nul_prev.returned /\ nul_last.returned) =>
         ((nul_prev.nullifier = nul_last.nullifier)
            <=> (nul_prev.address = nul_last.address /\ nul_prev.epoch_id = nul_last.epoch_id))

\* C6 witness: one identity in epochs 1 and 257 (equal in their low byte),
\* with different nullifiers.
C6_Witness ==
    /\ nul_prev.returned /\ nul_last.returned
    /\ nul_prev.address = nul_last.address
    /\ nul_prev.epoch_id = 1 /\ nul_last.epoch_id = 257
    /\ nul_prev.nullifier # nul_last.nullifier

\* C7: odd-level duplication policy.  The root of [A,B,C] is
\* pair_hash(pair_hash(leaf A, leaf B), pair_hash(leaf C, leaf C)) and is the
\* root of [A,B,C,C]; at every level with an odd count (above 1) the last
\* node's parent is pair_hash(node, node), and the proof of a leaf whose path
\* goes through that node records the node itself as its sibling there.
C7_OddLevelDuplication ==
    tree.built =>
        LET ls == tree_levels(tree.leaves)
        IN  /\ Len(addresses) = 3 =>
                 /\ tree.root = hash_pair(hash_pair(tree.leaves[1], tree.leaves[2]),
                                          hash_pair(tree.leaves[3], tree.leaves[3]))
                 /\ tree.root = MerkleTree_new(Append(addresses, addresses[3])).tree.root
            /\ \A k \in 1..(Len(ls) - 1) :
                 LET n == Len(ls[k])
                 IN  n % 2 = 1 =>
                       /\ ls[k + 1][Len(ls[k + 1])] = hash_pair(ls[k][n], ls[k][n])
                       /\ (pc = "proved" /\ PathIndex(proof_index, k) = n - 1)
                            => (k <= Len(proof) /\ proof[k] = ls[k][n])

\* C7 witness: the proof of C in the tree of [A,B,C] has been extracted and
\* starts with the leaf of C itself.
C7_Witness ==
    /\ pc = "proved" /\ Len(addresses) = 3 /\ Distinct(addresses)
    /\ proof_index = 2 /\ proof[1] = tree.leaves[3]
    /\ tree.root = hash_pair(hash_pair(tree.leaves[1], tree.leaves[2]),
                             hash_pair(tree.leaves[3], tree.leaves[3]))

\* C8: proof length.  For a tree of n >= 1 leaves and an index below n,
\* get_proof returns one sibling per level, leaf level first: its length is
\* ceil(log2(n)) and its k-th element is the neighbour, at level k, of the
\* node on the leaf's path (the node itself when it has no right neighbour).
C8_ProofLength ==
    pc = "proved" =>
        LET ls == tree_levels(tree.leaves)
        IN  /\ Len(proof) = CeilLog2(Len(tree.leaves))
            /\ Len(proof) = Len(ls) - 1
            /\ \A k \in DOMAIN proof :
                 LET at == PathIndex(proof_index, k)
                     sibling == IF at % 2 = 1 THEN at - 1
                                ELSE IF at + 1 < Len(ls[k]) THEN at + 1 ELSE at
                 IN  proof[k] = ls[k][sibling + 1]

\* C8 witness: the proof of the last of five leaves has three elements.
C8_Witness ==
    /\ pc = "proved" /\ Len(tree.leaves) = 5 /\ proof_index = 4 /\ Len(proof) = 3

\* C9: out-of-domain arguments of the Builder and the Extractor fail and
\* return nothing.  MerkleTree::new on no address fails with "Cannot build
\* tree from empty list" (EmptyInputError) and there is no tree; get_proof with
\* index >= number of leaves fails with "Index out of bounds"
\* (IndexOutOfRangeError) and there is no proof; every non-empty list yields a
\* tree whose reduction ends at one node, and every index below the number of
\* leaves yields a proof.
C9_OutOfDomainFails ==
    /\ (pc \notin {"start", "nullifier"} /\ addresses = << >>)
         => (/\ pc = "host_panic" /\ host_panic = "Cannot build tree from empty list"
             /\ tree = NoTree /\ proof = << >>)
    /\ (pc \notin {"start", "nullifier"} /\ addresses # << >>)
         => LET ls == tree_levels(tree.leaves)
            IN  /\ tree.built /\ Len(tree.leaves) = Len(addresses)
                /\ Len(ls[Len(ls)]) = 1 /\ tree.root = ls[Len(ls)][1]
    /\ (pc = "host_panic" /\ tree.built)
         => (/\ proof_index >= Len(tree.leaves) /\ host_panic = "Index out of bounds"
             /\ proof = << >>)
    /\ pc \in {"proved", "verified"}
         => (proof_index < Len(tree.leaves) /\ host_panic = "")

\* C9 witness: get_proof was asked for the index one past the last leaf of a
\* tree and failed.
C9_Witness ==
    /\ pc = "host_panic" /\ tree.built /\ proof_index = Len(tree.leaves)
    /\ host_panic = "Index out of bounds" /\ proof = << >>

\* C10: membership soundness.  Against the root of a tree, the guest's proof
\* check can succeed only for an identity of the allowlist: for an identity
\* that is not in it, whatever the proof and the index, is_valid is false, the
\* run fails and nothing is committed.
C10_MembershipSoundness ==
    (/\ pc = "guest" /\ public_inputs.merkle_root = tree.root
     /\ \A q \in DOMAIN addresses : addresses[q] # claim_input.user_address)
        => (is_valid = FALSE /\ guest_panic = "Invalid Merkle proof" /\ journal = << >>)

\* C10 witness: an identity outside a three-member allowlist claims with a
\* forged two-element proof that ends with a node of the tree, and is refused.
C10_Witness ==
    /\ pc = "guest" /\ public_inputs.merkle_root = tree.root
    /\ Len(addresses) = 3 /\ Distinct(addresses)
    /\ \A q \in DOMAIN addresses : addresses[q] # claim_input.user_address
    /\ Len(claim_input.merkle_proof) = 2
    /\ claim_input.merkle_proof[2] = hash_pair(tree.leaves[3], tree.leaves[3])
    /\ claim_input.leaf_index = 1
    /\ is_valid = FALSE /\ journal = << >>
=============================================================================
